---- MODULE Spec2Model ----
(***************************************************************************)
(* The eight-email nurture sequence of the Recruitment APK service         *)
(* (email_automation_service.py): one background thread per started        *)
(* sequence walks EMAIL_SCHEDULE, sleeping until each email's send date,   *)
(* reading the deal's "email_sequence_status" and "laatste_email" fields   *)
(* from Pipedrive before every send and writing them after it.             *)
(*                                                                         *)
(* Time is counted in whole days.  Every call that leaves the thread (a    *)
(* Pipedrive request, the SMTP delivery, the sleep) is one step of the     *)
(* thread, so other threads, Pipedrive users and the clock interleave      *)
(* between them exactly where the program allows it.                       *)
(***************************************************************************)
EXTENDS Integers, Sequences, FiniteSets, TLC

\* ------------------------------------------------------------------ bounds
MaxDeals == 2          \* deals in Pipedrive, where there are several
MaxRunners == 2        \* threads alive at the same time, where threads overlap
MaxRuns == 2           \* calls of start_email_sequence
MaxNow == 31           \* the clock stops after this many days
ShortNow == 1          \* the same, where threads overlap
MaxExternal == 1       \* status edits by Pipedrive users or automations
MaxHang == 1           \* SMTP deliveries that never return, where they may
MaxSubmissions == 3    \* webhook calls handled
MaxFault == 1          \* requests that fail: SMTP deliveries, Pipedrive reads and writes

\* The specifications below follow the sequences of one deal, and where
\* threads do not overlap one place for a thread is enough.
OneDeal == {1}
OnePlace == {1}

\* --------------------------------------------------------- program constants
\* EMAIL_SCHEDULE: (email_num, day) of each email, in list order.
EMAIL_SCHEDULE ==
    << [email_num |-> 1, day |-> 1],  [email_num |-> 2, day |-> 3],
       [email_num |-> 3, day |-> 5],  [email_num |-> 4, day |-> 8],
       [email_num |-> 5, day |-> 11], [email_num |-> 6, day |-> 14],
       [email_num |-> 7, day |-> 21], [email_num |-> 8, day |-> 30] >>

\* The keys of EMAIL_TEMPLATES.
EMAIL_TEMPLATES == 1..8

\* The options of the "email_sequence_status" deal field.
StatusOptions == {"Actief", "Gepauzeerd", "Voltooid"}

\* ------------------------------------------------------- the field encoding
\* A text field of a deal is a sequence of characters; << >> is the empty or
\* missing field.
Digit == <<"0", "1", "2", "3", "4", "5", "6", "7", "8", "9">>

RECURSIVE IntToStr(_)
IntToStr(n) ==
    IF n < 10 THEN << Digit[n + 1] >>
    ELSE IntToStr(n \div 10) \o << Digit[(n % 10) + 1] >>

\* Mutant: the value is written without the space.
LaatsteEmailValue_NoSpace(email_num) == <<"E", "m", "a", "i", "l">> \o IntToStr(email_num)

\* f"Email {email_num}"
LaatsteEmailValue(email_num) == <<"E", "m", "a", "i", "l", " ">> \o IntToStr(email_num)

StartsWith(s, p) == Len(s) >= Len(p) /\ SubSeq(s, 1, Len(p)) = p

\* p in s
Contains(s, p) == \E i \in 1..(Len(s) - Len(p) + 1) : SubSeq(s, i, i + Len(p) - 1) = p

\* s.replace(p, "")
RECURSIVE Remove(_, _)
Remove(s, p) ==
    IF s = << >> THEN << >>
    ELSE IF StartsWith(s, p) THEN Remove(SubSeq(s, Len(p) + 1, Len(s)), p)
    ELSE << Head(s) >> \o Remove(Tail(s), p)

IsDigit(c) == \E k \in 1..10 : Digit[k] = c
DigitValue(c) == (CHOOSE k \in 1..10 : Digit[k] = c) - 1

RECURSIVE StrToNat(_)
StrToNat(s) ==
    IF Len(s) = 1 THEN DigitValue(s[1])
    ELSE 10 * StrToNat(SubSeq(s, 1, Len(s) - 1)) + DigitValue(s[Len(s)])

\* int(text) on unsigned decimal text; -1 stands for the ValueError it raises
\* on anything else.
ParseInt(s) ==
    IF s # << >> /\ \A i \in 1..Len(s) : IsDigit(s[i]) THEN StrToNat(s) ELSE -1

\* ------------------------------------------------------------ pure helpers
\* get_sequence_status: the field of the deal read, "" when the read failed.
get_sequence_status(read_ok, field) == IF read_ok THEN field ELSE ""

\* get_last_email_sent: the number after "Email " in the field; 0 when the
\* read failed, the field is empty, has no "Email" in it, or int() raises.
get_last_email_sent(read_ok, field) ==
    IF read_ok /\ field # << >> /\ Contains(field, <<"E", "m", "a", "i", "l">>)
    THEN LET n == ParseInt(Remove(field, <<"E", "m", "a", "i", "l", " ">>))
         IN  IF n >= 0 THEN n ELSE 0
    ELSE 0

\* Mutant: "Voltooid" left out of the list.
SequenceStopped_OnlyPaused(s) == s = "Gepauzeerd"

\* status in ["Gepauzeerd", "Voltooid"]
SequenceStopped(s) == s \in {"Gepauzeerd", "Voltooid"}

\* Mutants: the comparison off by one, and strict.
AlreadySent_OffByOne(last_sent, email_num) == last_sent + 1 >= email_num
AlreadySent_Strict(last_sent, email_num) == last_sent > email_num

\* last_sent >= email_num
AlreadySent(last_sent, email_num) == last_sent >= email_num

\* Mutant: the test names the email before the last.
IsLastEmail_Seven(email_num) == email_num = 7

\* Mutant: every email is taken for the last one.
IsLastEmail_Any(email_num) == email_num >= 1

\* email_num == 8
IsLastEmail(email_num) == email_num = 8

\* A date text is [is_date, day]: whether it has the form %Y-%m-%d, and the
\* day it then names.
DateText(day) == [is_date |-> TRUE, day |-> day]
NoDateText == [is_date |-> FALSE, day |-> 0]

\* Mutant: the fallback is day 0, not the current day.
ParseSentDate_Epoch(text, today) == IF text.is_date THEN text.day ELSE 0

\* datetime.strptime(apk_sent_date, "%Y-%m-%d") with the bare except around
\* it: the day parsed, or datetime.now() when the text is no date.
ParseSentDate(text, today) == IF text.is_date THEN text.day ELSE today

\* Mutant: the day of the email is left out of its send date.
SendDate_NoOffset(sent, k) == sent

\* sent_date + timedelta(days=send_day)
SendDate(sent, k) == sent + EMAIL_SCHEDULE[k].day

\* Mutant: a wait, of no length, for a send date that is now.
MustWait_Due(send_date, today) == send_date - today >= 0

\* Mutant: no wait for a send date less than two days ahead.
MustWait_Late(send_date, today) == send_date - today > 1

\* wait_seconds > 0
MustWait(send_date, today) == send_date - today > 0

\* ------------------------------------------------------------------- state
VARIABLES
    now,          \* the clock, in days
    SMTP_PASS,    \* whether the SMTP password is configured
    status,       \* Pipedrive: "email_sequence_status" of each deal
    laatste,      \* Pipedrive: "laatste_email" of each deal
    pc,           \* where each thread is
    deal_id,      \* the deal of each thread
    apk_sent_date,\* the date text each thread was started with
    sent_date,    \* the parsed start day of each thread
    step,         \* the position in EMAIL_SCHEDULE of each thread
    wake,         \* the day a sleeping thread wakes
    seq_status,   \* the status each thread read last (its local "status")
    last_sent,    \* the last email number each thread read last
    log,          \* per thread: the email numbers send_sequence_email was called with
    delivered,    \* per deal and email number: SMTP deliveries made
    attempted,    \* per deal and email number: calls of send_sequence_email
    ops,          \* per thread: store reads and store writes made
    clean,        \* per thread: every status read "Actief", every send and write succeeded
    runs_on,      \* per deal: the sequences started for it
    pause,        \* per deal: the day of the latest edit to "Gepauzeerd" and the writes
                  \* its threads had made by then
    used,         \* how many failures and external edits have happened
    limit,        \* how many of each may happen
    submissions   \* the webhook calls handled: the deal created (0: none) and
                  \* whether the APK report email was sent

vars == << now, SMTP_PASS, status, laatste, pc, deal_id, apk_sent_date, sent_date,
           step, wake, seq_status, last_sent, log, delivered, attempted, ops, clean,
           runs_on, pause, used, limit, submissions >>

\* The deals of the store and the places for threads.
Deals == DOMAIN status
Runners == DOMAIN pc

store == << status, laatste >>
args == << deal_id, apk_sent_date >>
locals == << sent_date, step, wake, seq_status, last_sent >>
history == << log, delivered, attempted, ops, clean, runs_on, pause >>

N == Len(EMAIL_SCHEDULE)
EmailNum(r) == EMAIL_SCHEDULE[step[r]].email_num

NoUse == [runs |-> 0, external |-> 0, fault |-> 0, hang |-> 0]

\* The state at the start: deals D whose status field holds st, places R for
\* threads, nothing sent, no webhook call handled.
InitGiven(D, R, st) ==
    /\ now = 0
    /\ SMTP_PASS \in BOOLEAN
    /\ submissions = << >>
    /\ status = [d \in D |-> st]
    /\ laatste = [d \in D |-> << >>]
    /\ pc = [r \in R |-> "idle"]
    /\ deal_id = [r \in R |-> 1]
    /\ apk_sent_date = [r \in R |-> DateText(0)]
    /\ sent_date = [r \in R |-> 0]
    /\ step = [r \in R |-> 1]
    /\ wake = [r \in R |-> 0]
    /\ seq_status = [r \in R |-> ""]
    /\ last_sent = [r \in R |-> 0]
    /\ log = [r \in R |-> << >>]
    /\ delivered = [d \in D |-> [n \in EMAIL_TEMPLATES |-> 0]]
    /\ attempted = [d \in D |-> [n \in EMAIL_TEMPLATES |-> 0]]
    /\ ops = [r \in R |-> [reads |-> 0, writes |-> 0]]
    /\ clean = [r \in R |-> TRUE]
    /\ runs_on = [d \in D |-> 0]
    /\ pause = [d \in D |-> [on |-> -1, writes |-> [r \in R |-> 0]]]
    /\ used = NoUse

\* create_or_update_pipedrive_deal: status "Actief", no "laatste_email"
InitWith(D, R) == InitGiven(D, R, "Actief")

\* One thread at a time, as the design assumes: a sequence is started again
\* only after the earlier thread has returned or has died with the process.
Init ==
    /\ InitWith(OneDeal, OnePlace)
    /\ limit = [runs |-> MaxRuns, per_deal |-> MaxRuns, external |-> MaxExternal,
                fault |-> MaxFault, hang |-> 0, days |-> MaxNow]

\* A sequence started while an earlier thread for the deal is still running
\* (start_email_sequence called again for the deal); every request succeeds, and the clock stops
\* early, so that the threads that get far are those started with a date in
\* the past.
InitConcurrent ==
    /\ InitWith(OneDeal, 1..MaxRunners)
    /\ limit = [runs |-> MaxRuns, per_deal |-> MaxRuns, external |-> MaxExternal,
                fault |-> 0, hang |-> 0, days |-> ShortNow]

\* Whether one more event of this kind may happen, and the counters after it.
May(kind) == used[kind] < limit[kind]
Spend(kind) == [used EXCEPT ![kind] = @ + 1]
Returned(r) == pc[r] \in {"done", "stopped"}

\* ------------------------------------------------------------- the threads
\* start_email_sequence: a new daemon thread running process_email_sequence.
\* The thread takes the first free place; what is recorded of the thread that
\* had the place before is dropped.
Free(r) == pc[r] = "idle" \/ Returned(r) \/ pc[r] = "crashed"

StartThread(r, d, date) ==
    /\ Free(r)
    /\ \A q \in Runners : q < r => ~Free(q)
    /\ May("runs")
    /\ runs_on[d] < limit.per_deal
    /\ used' = Spend("runs")
    /\ runs_on' = [runs_on EXCEPT ![d] = @ + 1]
    /\ pc' = [pc EXCEPT ![r] = "parse"]
    /\ deal_id' = [deal_id EXCEPT ![r] = d]
    /\ apk_sent_date' = [apk_sent_date EXCEPT ![r] = date]
    /\ sent_date' = [sent_date EXCEPT ![r] = 0]
    /\ step' = [step EXCEPT ![r] = 1]
    /\ wake' = [wake EXCEPT ![r] = 0]
    /\ seq_status' = [seq_status EXCEPT ![r] = ""]
    /\ last_sent' = [last_sent EXCEPT ![r] = 0]
    /\ log' = [log EXCEPT ![r] = << >>]
    /\ ops' = [ops EXCEPT ![r] = [reads |-> 0, writes |-> 0]]
    /\ clean' = [clean EXCEPT ![r] = TRUE]
    /\ pause' = [pause EXCEPT ![d].writes[r] = 0]

start_email_sequence(r, d, date) ==
    /\ StartThread(r, d, date)
    /\ UNCHANGED << now, SMTP_PASS, store, delivered, attempted, limit, submissions >>

\* process_email_sequence, lines 450-454: parse the date, fall back to now.
ParseDate(r) ==
    /\ pc[r] = "parse"
    /\ sent_date' = [sent_date EXCEPT ![r] = ParseSentDate(apk_sent_date[r], now)]
    /\ step' = [step EXCEPT ![r] = 1]
    /\ pc' = [pc EXCEPT ![r] = "schedule"]
    /\ UNCHANGED << now, SMTP_PASS, store, args, wake, seq_status, last_sent,
                    history, used, limit, submissions >>

\* lines 456-466: the top of a loop iteration; sleep when the send date is ahead.
Schedule(r) ==
    /\ pc[r] = "schedule"
    /\ LET send_date == SendDate(sent_date[r], step[r]) IN
       IF MustWait(send_date, now)
       THEN /\ wake' = [wake EXCEPT ![r] = send_date]
            /\ pc' = [pc EXCEPT ![r] = "sleep"]
       ELSE /\ pc' = [pc EXCEPT ![r] = "check_status"]
            /\ UNCHANGED wake
    /\ UNCHANGED << now, SMTP_PASS, store, args, sent_date, step, seq_status,
                    last_sent, history, used, limit, submissions >>

\* time.sleep(wait_seconds) returns.
WakeUp(r) ==
    /\ pc[r] = "sleep"
    /\ now >= wake[r]
    /\ pc' = [pc EXCEPT ![r] = "check_status"]
    /\ UNCHANGED << now, SMTP_PASS, store, args, locals, history, used, limit, submissions >>

\* Mutant: the loop steps over an entry of the schedule.
NextStep_Skip(k) == IF k < N - 1 THEN k + 2 ELSE N

\* The pc and step after the body of an iteration ends (continue, or the end of
\* the loop body): the next schedule entry, or the end of the function.
NextPc(k) == IF k < N THEN "schedule" ELSE "done"
NextStep(k) == IF k < N THEN k + 1 ELSE k

\* lines 468-472: read the status; return when the sequence is stopped.
CheckStatus(r, read_ok) ==
    /\ pc[r] = "check_status"
    /\ read_ok \/ May("fault")
    /\ used' = IF read_ok THEN used ELSE Spend("fault")
    /\ ops' = [ops EXCEPT ![r].reads = @ + 1]
    /\ LET s == get_sequence_status(read_ok, status[deal_id[r]]) IN
       /\ seq_status' = [seq_status EXCEPT ![r] = s]
       /\ clean' = [clean EXCEPT ![r] = @ /\ s = "Actief"]
       /\ pc' = [pc EXCEPT ![r] = IF SequenceStopped(s) THEN "stopped" ELSE "check_last"]
    /\ UNCHANGED << now, SMTP_PASS, store, args, sent_date, step, wake, last_sent,
                    log, delivered, attempted, runs_on, pause, limit, submissions >>

\* lines 474-478: read the last email sent; skip this email when already sent.
CheckLast(r, read_ok) ==
    /\ pc[r] = "check_last"
    /\ read_ok \/ May("fault")
    /\ used' = IF read_ok THEN used ELSE Spend("fault")
    /\ ops' = [ops EXCEPT ![r].reads = @ + 1]
    /\ LET n == get_last_email_sent(read_ok, laatste[deal_id[r]]) IN
       /\ last_sent' = [last_sent EXCEPT ![r] = n]
       /\ IF AlreadySent(n, EmailNum(r))
          THEN /\ pc' = [pc EXCEPT ![r] = NextPc(step[r])]
               /\ step' = [step EXCEPT ![r] = NextStep(step[r])]
          ELSE /\ pc' = [pc EXCEPT ![r] = "send"]
               /\ UNCHANGED step
    /\ UNCHANGED << now, SMTP_PASS, store, args, sent_date, wake, seq_status,
                    log, delivered, attempted, clean, runs_on, pause, limit, submissions >>

\* Mutant: a failed send is recorded like a delivered one.
AfterSendFailed_Record(k) == [pc |-> "update_last", step |-> k]

\* Mutant: a failed send is taken for a stopped sequence.
AfterSendFailed_Stop(k) == [pc |-> "stopped", step |-> k]

\* Mutant: a failed send ends the run.
AfterSendFailed_Return(k) == [pc |-> "done", step |-> k]

\* What process_email_sequence does when send_sequence_email returned False:
\* log the error and go on with the next email.
AfterSendFailed(k) == [pc |-> NextPc(k), step |-> NextStep(k)]

\* What the SMTP server does with a delivery: it takes the message, it refuses
\* it or the connection breaks (smtplib raises), or it stops answering.
SmtpOutcomes == {"sent", "refused", "hangs"}

\* send_sequence_email, lines 385-424 and 437-439: False without SMTP password
\* or template, or when building or delivering the message raises; otherwise
\* the message is delivered and the store is updated next.  smtplib.SMTP is
\* opened without a timeout, so a server that stops answering leaves the
\* thread blocked in the call.
Send(r, smtp) ==
    /\ pc[r] = "send"
    /\ log' = [log EXCEPT ![r] = Append(@, EmailNum(r))]
    /\ attempted' = [attempted EXCEPT ![deal_id[r]][EmailNum(r)] = @ + 1]
    /\ IF ~SMTP_PASS \/ EmailNum(r) \notin EMAIL_TEMPLATES
       THEN /\ smtp = "sent"
            /\ pc' = [pc EXCEPT ![r] = AfterSendFailed(step[r]).pc]
            /\ step' = [step EXCEPT ![r] = AfterSendFailed(step[r]).step]
            /\ clean' = [clean EXCEPT ![r] = FALSE]
            /\ UNCHANGED << delivered, used >>
       ELSE IF smtp = "sent"
       THEN /\ delivered' = [delivered EXCEPT ![deal_id[r]][EmailNum(r)] = @ + 1]
            /\ pc' = [pc EXCEPT ![r] = "update_last"]
            /\ UNCHANGED << step, clean, used >>
       ELSE IF smtp = "refused"
       THEN /\ May("fault")
            /\ used' = Spend("fault")
            /\ pc' = [pc EXCEPT ![r] = AfterSendFailed(step[r]).pc]
            /\ step' = [step EXCEPT ![r] = AfterSendFailed(step[r]).step]
            /\ clean' = [clean EXCEPT ![r] = FALSE]
            /\ UNCHANGED delivered
       ELSE /\ May("hang")
            /\ used' = Spend("hang")
            /\ pc' = [pc EXCEPT ![r] = "hung"]
            /\ clean' = [clean EXCEPT ![r] = FALSE]
            /\ UNCHANGED << delivered, step >>
    /\ UNCHANGED << now, SMTP_PASS, store, args, sent_date, wake, seq_status,
                    last_sent, ops, runs_on, pause, limit, submissions >>

\* Mutant: a PUT that fails sets the field all the same.
update_deal_field_Always(field, d, value, write_ok) == [field EXCEPT ![d] = value]

\* Mutant: the PUT is not confined to the deal it names.
update_deal_field_AllDeals(field, d, value, write_ok) ==
    IF write_ok THEN [x \in DOMAIN field |-> value] ELSE field

\* update_deal_field: the PUT sets the one field it names, or fails and sets
\* nothing; its result is ignored by the caller.
update_deal_field(field, d, value, write_ok) ==
    IF write_ok THEN [field EXCEPT ![d] = value] ELSE field

\* Mutant: the PUT replaces the deal, clearing the fields its data leaves out.
PutOmitted_Cleared(field, d, blank, write_ok) ==
    IF write_ok THEN [field EXCEPT ![d] = blank] ELSE field

\* update_deal_field, data = {field_key: value}: a field of the deal that the
\* data of the PUT does not name stays as it is.
PutOmitted(field, d, blank, write_ok) == field

\* send_sequence_email, lines 428-429: record the email as the last one sent.
UpdateLast(r, write_ok) ==
    /\ pc[r] = "update_last"
    /\ write_ok \/ May("fault")
    /\ used' = IF write_ok THEN used ELSE Spend("fault")
    /\ ops' = [ops EXCEPT ![r].writes = @ + 1]
    /\ clean' = [clean EXCEPT ![r] = @ /\ write_ok]
    /\ laatste' = update_deal_field(laatste, deal_id[r], LaatsteEmailValue(EmailNum(r)), write_ok)
    /\ status' = PutOmitted(status, deal_id[r], "", write_ok)
    /\ IF IsLastEmail(EmailNum(r))
       THEN /\ pc' = [pc EXCEPT ![r] = "update_status"]
            /\ UNCHANGED step
       ELSE /\ pc' = [pc EXCEPT ![r] = NextPc(step[r])]
            /\ step' = [step EXCEPT ![r] = NextStep(step[r])]
    /\ UNCHANGED << now, SMTP_PASS, args, sent_date, wake, seq_status,
                    last_sent, log, delivered, attempted, runs_on, pause, limit, submissions >>

\* send_sequence_email, lines 431-435: after the last email, mark the sequence
\* "Voltooid"; return True.
UpdateStatus(r, write_ok) ==
    /\ pc[r] = "update_status"
    /\ write_ok \/ May("fault")
    /\ used' = IF write_ok THEN used ELSE Spend("fault")
    /\ ops' = [ops EXCEPT ![r].writes = @ + 1]
    /\ clean' = [clean EXCEPT ![r] = @ /\ write_ok]
    /\ status' = update_deal_field(status, deal_id[r], "Voltooid", write_ok)
    /\ laatste' = PutOmitted(laatste, deal_id[r], << >>, write_ok)
    /\ pc' = [pc EXCEPT ![r] = NextPc(step[r])]
    /\ step' = [step EXCEPT ![r] = NextStep(step[r])]
    /\ UNCHANGED << now, SMTP_PASS, args, sent_date, wake, seq_status,
                    last_sent, log, delivered, attempted, runs_on, pause, limit, submissions >>

\* --------------------------------------------------------- the environment
\* A Pipedrive user or automation edits the status field of a deal.
ExternalSetStatus(d, s) ==
    /\ May("external")
    /\ s # status[d]
    /\ used' = Spend("external")
    /\ status' = [status EXCEPT ![d] = s]
    /\ pause' = IF s = "Gepauzeerd"
                THEN [pause EXCEPT ![d] =
                        [on |-> now,
                         writes |-> [r \in Runners |-> IF deal_id[r] = d THEN ops[r].writes ELSE 0]]]
                ELSE pause
    /\ UNCHANGED << now, SMTP_PASS, laatste, pc, args, locals, log, delivered,
                    attempted, ops, clean, runs_on, limit, submissions >>

\* The process dies (it is killed, the host restarts): every thread still
\* running is gone with it, wherever it was; what it did to the store and what
\* it delivered stays.  A crash matters only when a sequence is started again
\* afterwards: without that, the threads just take no further step.
Running(r) == ~Free(r)

Crash ==
    /\ \E r \in Runners : Running(r)
    /\ May("runs")
    /\ pc' = [r \in Runners |-> IF Running(r) THEN "crashed" ELSE pc[r]]
    /\ UNCHANGED << now, SMTP_PASS, store, args, locals, history, used, limit, submissions >>

\* A day passes.  The program observes the clock only where it computes a
\* wait and where it sleeps, so the clock is advanced while some thread sleeps
\* towards a day still ahead; a thread that finds its send date already past
\* is the case of a start date in the past.
Tick ==
    /\ now < limit.days
    /\ \E r \in Runners : pc[r] = "sleep" /\ wake[r] > now
    /\ now' = now + 1
    /\ UNCHANGED << SMTP_PASS, store, pc, args, locals, history, used, limit, submissions >>

\* The dates a sequence is started with: today (the webhook handler), a day
\* by which the whole schedule is overdue, and text that is no date.
StartDates == {DateText(now), DateText(now - EMAIL_SCHEDULE[N].day), NoDateText}

Next ==
    \/ \E r \in Runners, d \in Deals, date \in StartDates : start_email_sequence(r, d, date)
    \/ \E r \in Runners : ParseDate(r)
    \/ \E r \in Runners : Schedule(r)
    \/ \E r \in Runners : WakeUp(r)
    \/ \E r \in Runners, read_ok \in BOOLEAN : CheckStatus(r, read_ok)
    \/ \E r \in Runners, read_ok \in BOOLEAN : CheckLast(r, read_ok)
    \/ \E r \in Runners, smtp \in SmtpOutcomes : Send(r, smtp)
    \/ \E r \in Runners, write_ok \in BOOLEAN : UpdateLast(r, write_ok)
    \/ \E r \in Runners, write_ok \in BOOLEAN : UpdateStatus(r, write_ok)
    \/ \E d \in Deals, s \in StatusOptions : ExternalSetStatus(d, s)
    \/ Crash
    \/ Tick

Spec == Init /\ [][Next]_vars

SpecConcurrent == InitConcurrent /\ [][Next]_vars

\* Sequences of several deals running side by side, one sequence for a deal,
\* otherwise as in InitConcurrent.
InitDeals ==
    /\ InitWith(1..MaxDeals, 1..MaxRunners)
    /\ limit = [runs |-> MaxRuns, per_deal |-> 1, external |-> MaxExternal,
                fault |-> 0, hang |-> 0, days |-> ShortNow]

SpecDeals == InitDeals /\ [][Next]_vars

\* One thread at a time, whose SMTP server may stop answering, under fair
\* scheduling: a thread that can take a step takes it in the end, and the days
\* pass while a thread sleeps.  A crash is never bound to happen.
InitLive ==
    /\ InitWith(OneDeal, OnePlace)
    /\ limit = [runs |-> MaxRuns, per_deal |-> MaxRuns, external |-> MaxExternal,
                fault |-> MaxFault, hang |-> MaxHang, days |-> MaxNow]

ThreadStep(r) ==
    \/ ParseDate(r) \/ Schedule(r) \/ WakeUp(r)
    \/ \E read_ok \in BOOLEAN : CheckStatus(r, read_ok) \/ CheckLast(r, read_ok)
    \/ \E smtp \in SmtpOutcomes : Send(r, smtp)
    \/ \E write_ok \in BOOLEAN : UpdateLast(r, write_ok) \/ UpdateStatus(r, write_ok)

Fairness == WF_vars(Tick) /\ \A r \in OnePlace : WF_vars(ThreadStep(r))

SpecLive == InitLive /\ [][Next]_vars /\ Fairness

\* ------------------------------------------------------ the webhook handler
\* The deals created by the webhook calls handled so far.
Created == {submissions[i].deal : i \in 1..Len(submissions)} \ {0}

\* Mutant: the sequence is started whether or not the APK email was sent.
StartsSequence_DealOnly(deal, email_sent) == deal # 0

\* webhook_handler_apk.py, line 143: if deal and email_sent
StartsSequence(deal, email_sent) == deal # 0 /\ email_sent

\* handle_typeform_webhook, webhook_handler_apk.py lines 98-168.  A call
\* without a usable form response is answered 400 before anything is done.
\* Otherwise create_or_update_pipedrive_deal (553-628) posts a new deal with
\* status "Actief" and no "laatste_email" and returns it, or None when the
\* request fails; send_apk_email (639-800) returns False without SMTP
\* password or when the delivery raises; and the sequence is started with
\* today's date when there is a deal and the email was sent.
handle_typeform_webhook(valid, deal_ok, smtp_ok) ==
    /\ Len(submissions) < MaxSubmissions
    /\ LET d == Cardinality(Created) + 1
           deal == IF valid /\ deal_ok THEN d ELSE 0
           email_sent == valid /\ SMTP_PASS /\ smtp_ok
       IN  /\ deal # 0 => d \in Deals
           /\ submissions' = Append(submissions, [deal |-> deal, email_sent |-> email_sent])
           /\ status' = IF deal # 0 THEN [status EXCEPT ![d] = "Actief"] ELSE status
           /\ laatste' = IF deal # 0 THEN [laatste EXCEPT ![d] = << >>] ELSE laatste
           /\ IF StartsSequence(deal, email_sent)
              THEN \E r \in Runners : StartThread(r, deal, DateText(now))
              ELSE UNCHANGED << pc, args, locals, log, ops, clean, runs_on, pause, used >>
    /\ UNCHANGED << now, SMTP_PASS, delivered, attempted, limit >>

\* The store is empty at the start, and a sequence is started by the webhook
\* handler only, one thread at a time; a Pipedrive user edits the deals there
\* are; every request of a thread succeeds.
InitWebhook ==
    /\ InitGiven(1..MaxDeals, OnePlace, "")
    /\ limit = [runs |-> MaxRuns, per_deal |-> 1, external |-> MaxExternal,
                fault |-> 0, hang |-> 0, days |-> MaxNow]

NextWebhook ==
    \/ \E valid \in BOOLEAN, deal_ok \in BOOLEAN, smtp_ok \in BOOLEAN :
          handle_typeform_webhook(valid, deal_ok, smtp_ok)
    \/ \E r \in Runners : ParseDate(r)
    \/ \E r \in Runners : Schedule(r)
    \/ \E r \in Runners : WakeUp(r)
    \/ \E r \in Runners, read_ok \in BOOLEAN : CheckStatus(r, read_ok)
    \/ \E r \in Runners, read_ok \in BOOLEAN : CheckLast(r, read_ok)
    \/ \E r \in Runners, smtp \in SmtpOutcomes : Send(r, smtp)
    \/ \E r \in Runners, write_ok \in BOOLEAN : UpdateLast(r, write_ok)
    \/ \E r \in Runners, write_ok \in BOOLEAN : UpdateStatus(r, write_ok)
    \/ \E d \in Created, s \in StatusOptions : ExternalSetStatus(d, s)
    \/ Crash
    \/ Tick

SpecWebhook == InitWebhook /\ [][NextWebhook]_vars

\* ------------------------------------------------------------------ claims
\* The value a successful read of "laatste_email" returns for deal d.
LastStepSent(d) == get_last_email_sent(TRUE, laatste[d])

\* Thread r runs the only sequence started so far for its deal.
Sole(r) == runs_on[deal_id[r]] = 1

Started(r) == pc[r] \notin {"idle", "parse"}

AllEmails == [k \in 1..N |-> EMAIL_SCHEDULE[k].email_num]

\* C1: a thread that is the only run of its deal, that read "Actief" at every
\* status check and whose sends and store writes all succeeded, returns having
\* called send for each email of the schedule once, in schedule order, with
\* the store holding last email N and status "Voltooid".
C1_CleanRunCompletes ==
    [][\A r \in Runners :
         (pc[r] # "done" /\ pc'[r] = "done" /\ clean'[r] /\ runs_on'[deal_id[r]] = 1)
         => /\ log'[r] = AllEmails
            /\ \A n \in EMAIL_TEMPLATES : delivered'[deal_id[r]][n] = 1
            /\ get_last_email_sent(TRUE, laatste'[deal_id[r]]) = N
            /\ status'[deal_id[r]] = "Voltooid"]_vars

\* A run started today that waited for every send date and completed cleanly.
C1_Witness ==
    \E r \in Runners :
        /\ pc[r] = "done" /\ clean[r] /\ Sole(r)
        /\ apk_sent_date[r] = DateText(0) /\ now >= SendDate(0, N)
        /\ log[r] = AllEmails
        /\ LastStepSent(deal_id[r]) = N /\ status[deal_id[r]] = "Voltooid"

\* C2: while a deal stays "Gepauzeerd" since a day before email k's send
\* date, neither email k nor a later one has been delivered for it, its only
\* thread has made no store write since the pause, and the last email
\* recorded is below k.
C2_PausedSendsNothing ==
    \A r \in Runners, k \in 1..N :
        LET d == deal_id[r] IN
        (/\ Started(r) /\ Sole(r)
         /\ status[d] = "Gepauzeerd"
         /\ pause[d].on < SendDate(sent_date[r], k))
        => /\ \A j \in k..N : delivered[d][EMAIL_SCHEDULE[j].email_num] = 0
           /\ ops[r].writes = pause[d].writes[r]
           /\ LastStepSent(d) < EMAIL_SCHEDULE[k].email_num

\* C3: no email of the schedule is delivered twice for the same deal.
C3_NoStepSentTwice ==
    \A d \in Deals, n \in EMAIL_TEMPLATES : delivered[d][n] <= 1

\* C4: no step lowers the last email recorded for a deal.
C4_LastSentNeverDecreases ==
    [][\A d \in Deals :
         get_last_email_sent(TRUE, laatste'[d]) >= get_last_email_sent(TRUE, laatste[d])]_vars

\* C5: a thread that reads a last email number at or above the email of its
\* step neither sends nor writes in that step and goes on to the next
\* schedule entry; a thread about to send has read a number below its email.
C5_AlreadySentIsSkipped ==
    /\ [](\A r \in Runners : pc[r] = "send" => last_sent[r] < EmailNum(r))
    /\ [][\A r \in Runners :
            (pc[r] = "check_last" /\ pc'[r] \notin {"check_last", "crashed"}
               /\ last_sent'[r] >= EmailNum(r))
            => /\ pc'[r] = NextPc(step[r]) /\ step'[r] = NextStep(step[r])
               /\ log'[r] = log[r] /\ delivered' = delivered
               /\ ops'[r].writes = ops[r].writes /\ store' = store]_vars

\* A second run that skipped email 1 and sent nothing, the store recording a
\* later email.
C5_Witness ==
    \E r \in Runners :
        /\ ~Sole(r) /\ pc[r] = "schedule" /\ step[r] = 2
        /\ last_sent[r] >= 2 /\ log[r] = << >> /\ ops[r].writes = 0

\* C6: in a step that starts with the status of a deal "Voltooid", no email
\* is delivered for that deal.
C6_NoSendOnceCompleted ==
    [][\A d \in Deals : status[d] = "Voltooid" => delivered'[d] = delivered[d]]_vars

\* C7: a thread whose status check reads "Gepauzeerd" or "Voltooid" returns
\* in that step without sending, and a thread that so returned makes no read,
\* send or write afterwards, whatever the status becomes.
C7_StoppedIsTerminal ==
    [][\A r \in Runners :
         /\ (pc[r] = "check_status" /\ pc'[r] \notin {"check_status", "crashed"}
                /\ seq_status'[r] \in {"Gepauzeerd", "Voltooid"})
            => pc'[r] = "stopped" /\ log'[r] = log[r] /\ delivered' = delivered
         /\ (pc[r] = "stopped" /\ pc'[r] # "parse")
            => /\ pc'[r] = "stopped"
               /\ ops'[r] = ops[r] /\ log'[r] = log[r] /\ step'[r] = step[r]]_vars

\* A stopped thread whose deal is "Actief" again.
C7_Witness ==
    \E r \in Runners :
        /\ pc[r] = "stopped" /\ seq_status[r] \in {"Gepauzeerd", "Voltooid"}
        /\ status[deal_id[r]] = "Actief"

\* C8: a step in which a thread calls send, the call returns and nothing is
\* delivered changes neither store field, makes no store write, and leaves
\* the thread at the next schedule entry (at the end of the function after
\* the last one).
C8_SendFailureContinues ==
    [][\A r \in Runners :
         (pc[r] = "send" /\ pc'[r] # "hung" /\ log'[r] # log[r] /\ delivered' = delivered)
         => /\ store' = store /\ ops'[r] = ops[r]
            /\ step[r] < N => pc'[r] = "schedule" /\ step'[r] = step[r] + 1
            /\ step[r] = N => pc'[r] = "done"]_vars

\* A thread whose send of one email failed and that delivered a later one.
C8_Witness ==
    \E r \in Runners :
        /\ Len(log[r]) >= 2
        /\ delivered[deal_id[r]][log[r][1]] = 0
        /\ delivered[deal_id[r]][log[r][2]] = 1

\* C9: when a thread returns at the end of the schedule, the status of its
\* deal is "Voltooid".
C9_DoneMeansCompleted ==
    [][\A r \in Runners :
         (pc[r] # "done" /\ pc'[r] = "done") => status'[deal_id[r]] = "Voltooid"]_vars

C11_FailedStepIsRetried ==
    [][\A r \in Runners :
         LET d == deal_id[r]
             n == EmailNum(r)
         IN  (/\ pc[r] = "check_last" /\ pc'[r] \notin {"check_last", "crashed"}
              /\ status[d] = "Actief"
              /\ attempted[d][n] > 0 /\ delivered[d][n] = 0)
             => pc'[r] = "send"]_vars

\* C12: delivery is at least once, not exactly once.  A thread killed between
\* the delivery of an email and the write of "laatste_email" leaves the
\* store as it was, with the delivery made; a thread that reads a last email
\* number below its email calls send, whatever was delivered before; and an
\* email is delivered at most once by each sequence started for the deal.
C12_CrashBeforeWriteResends ==
    /\ [](\A d \in Deals, n \in EMAIL_TEMPLATES : delivered[d][n] <= runs_on[d])
    /\ [][\A r \in Runners :
            /\ (pc[r] = "update_last" /\ pc'[r] = "crashed")
               => store' = store /\ delivered' = delivered
            /\ (pc[r] = "check_last" /\ pc'[r] \notin {"check_last", "crashed"}
                   /\ last_sent'[r] < EmailNum(r))
               => pc'[r] = "send"]_vars

\* Email 1 delivered a second time by a restarted sequence: no request has
\* failed and nobody edited the deal, the first delivery was followed by a
\* crash, and the store still shows no email sent.
C12_Witness ==
    \E r \in Runners :
        /\ runs_on[deal_id[r]] = 2 /\ used.fault = 0 /\ used.external = 0
        /\ pc[r] = "update_last" /\ EmailNum(r) = 1 /\ last_sent[r] = 0
        /\ delivered[deal_id[r]][1] = 2
        /\ laatste[deal_id[r]] = << >>

\* C13: a step of the service (any step but an edit by a Pipedrive user or
\* automation) that changes the status of a deal changes it from "Actief" to
\* "Voltooid".
C13_OnlyActiveIsCompleted ==
    [][\A d \in Deals :
         (used'.external = used.external /\ status'[d] # status[d])
         => status[d] = "Actief" /\ status'[d] = "Voltooid"]_vars

\* The day a thread counts its schedule from: the day its date text names,
\* the day it parsed the text when the text names none.
StartDay(r) == IF apk_sent_date[r].is_date THEN apk_sent_date[r].day ELSE sent_date[r]

\* C14: send is called for an email of the schedule no earlier than the
\* thread's start day plus the day of that email, and the thread reads the
\* store for the email no earlier either.
C14_NoStepSentEarly ==
    /\ [](\A r \in Runners :
            pc[r] \in {"check_status", "check_last", "send", "update_last", "update_status"}
            => now >= StartDay(r) + EMAIL_SCHEDULE[step[r]].day)
    /\ [][\A r \in Runners :
            (pc[r] = "send" /\ log'[r] # log[r])
            => now >= StartDay(r) + EMAIL_SCHEDULE[step[r]].day]_vars

\* A thread started on day 0 with that day's date that has had emails 1, 2
\* and 3 delivered by day 5 and waits for email 4.
C14_Witness ==
    \E r \in Runners :
        /\ apk_sent_date[r] = DateText(0) /\ sent_date[r] = 0 /\ now = 5
        /\ log[r] = << 1, 2, 3 >> /\ pc[r] = "sleep" /\ step[r] = 4
        /\ \A n \in 1..3 : delivered[deal_id[r]][n] = 1

\* C15: a thread whose read of the deal fails, at the status check or at the
\* check of the last email sent, does not go on to send the email of that
\* step: it goes neither to the next check nor to the send.
C15_FailedReadAbortsStep ==
    [][\A r \in Runners :
         (pc[r] \in {"check_status", "check_last"} /\ ops'[r].reads # ops[r].reads
            /\ used'.fault # used.fault)
         => pc'[r] \notin {"check_last", "send"}]_vars

\* C16: under fair scheduling a thread that calls send gets past the call:
\* it leaves the send, returned or not yet, for the next email or the end.
C16_SendAlwaysReturns ==
    \A r \in OnePlace : [](pc[r] = "send" => <>(pc[r] \notin {"send", "hung"}))

\* The places of the loop body from which an iteration ends.
EndsStep == {"check_last", "send", "update_last", "update_status"}

\* The wake day of a sleeping thread lies behind the last day of the clock.
BeyondClock(r) == pc[r] = "sleep" /\ wake[r] > limit.days

\* C17: under fair scheduling a started thread returns, at the end of the
\* schedule or stopped, unless the process crashes, its send never returns or
\* its wait does not elapse.  The position in the schedule starts at the first
\* entry and moves on by one entry at a time, at the end of an iteration; the
\* thread returns at the end only from the last entry, and stopped only from a
\* status check, the entries before it gone through; the emails it called send
\* for are in ascending order, none twice, none beyond its entry.
C17_RunTerminates ==
    /\ \A r \in OnePlace :
         [](pc[r] # "idle" => <>(Returned(r) \/ pc[r] \in {"crashed", "hung"} \/ BeyondClock(r)))
    /\ [](\A r \in Runners :
            /\ pc[r] = "done" => step[r] = N
            /\ pc[r] = "parse" => step[r] = 1
            /\ \A i \in 1..Len(log[r]) :
                 /\ log[r][i] <= EmailNum(r)
                 /\ pc[r] \in {"schedule", "sleep", "check_status", "check_last", "send"}
                    => log[r][i] < EmailNum(r)
                 /\ i > 1 => log[r][i - 1] < log[r][i])
    /\ [][\A r \in Runners :
            /\ (step'[r] # step[r] /\ pc'[r] # "parse")
               => step'[r] = step[r] + 1 /\ pc[r] \in EndsStep /\ pc'[r] = "schedule"
            /\ (pc[r] # "done" /\ pc'[r] = "done") => step[r] = N /\ pc[r] \in EndsStep
            /\ (pc[r] # "stopped" /\ pc'[r] = "stopped")
               => pc[r] = "check_status" /\ step'[r] = step[r] /\ log'[r] = log[r]]_vars

\* A thread that returned at the end of the schedule having skipped some
\* emails and called send for others.
C17_Witness ==
    \E r \in Runners :
        pc[r] = "done" /\ Len(log[r]) < N /\ Len(log[r]) > 0

\* C18: a step of a thread leaves the status, the last email recorded, the
\* deliveries and the send calls of every deal but its own as they were, and
\* what it reads at its checks is the status and the last email of its own
\* deal (or the value of a failed read).
C18_DealsAreIndependent ==
    [][\A r \in Runners :
         /\ (pc'[r] # pc[r] /\ pc'[r] # "crashed")
            => \A d \in Deals \ {deal_id'[r]} :
                 /\ status'[d] = status[d] /\ laatste'[d] = laatste[d]
                 /\ delivered'[d] = delivered[d] /\ attempted'[d] = attempted[d]
         /\ (pc[r] = "check_status" /\ pc'[r] \notin {"check_status", "crashed"})
            => seq_status'[r] \in {status[deal_id[r]], ""}
         /\ (pc[r] = "check_last" /\ pc'[r] \notin {"check_last", "crashed"})
            => last_sent'[r] \in {LastStepSent(deal_id[r]), 0}]_vars

\* Two threads on two deals, one deal paused with its first email recorded,
\* the other completed with the last one recorded.
C18_Witness ==
    \E r, q \in Runners :
        /\ deal_id[r] # deal_id[q] /\ Started(r) /\ Started(q)
        /\ status[deal_id[r]] = "Gepauzeerd" /\ LastStepSent(deal_id[r]) = 1
        /\ status[deal_id[q]] = "Voltooid" /\ LastStepSent(deal_id[q]) = N

\* The store reads a thread has made when it is at pc in entry k of the
\* schedule: two for every entry gone through, the status read once the
\* status check is passed, the read of the last email once that check is too.
ReadsAt(k, at) ==
    2 * (k - 1)
    + (IF at \in {"check_last", "stopped"} THEN 1 ELSE 0)
    + (IF at \in {"send", "hung", "update_last", "update_status", "done"} THEN 2 ELSE 0)

\* C19: a thread reads the status once in an iteration, after the wait and
\* before the send: what it holds as the status changes only at the status
\* check, it returns stopped only from there, and its reads number as above.
\* Past the status check the thread goes on to the send whatever the status
\* of the deal has become: its steps up to the end of the iteration are those
\* of a thread whose deal is "Actief".
C19_StatusReadOncePerStep ==
    /\ [](\A r \in Runners :
            pc[r] \notin {"idle", "parse", "crashed"} => ops[r].reads = ReadsAt(step[r], pc[r]))
    /\ [][\A r \in Runners :
            /\ (seq_status'[r] # seq_status[r] /\ pc'[r] # "parse")
               => pc[r] = "check_status"
            /\ (pc[r] # "stopped" /\ pc'[r] = "stopped") => pc[r] = "check_status"
            /\ (pc[r] = "check_last" /\ pc'[r] \notin {"check_last", "crashed"}
                   /\ last_sent'[r] < EmailNum(r))
               => pc'[r] = "send"
            /\ (pc[r] = "send" /\ delivered' # delivered) => pc'[r] = "update_last"]_vars

\* A thread that read "Actief" for an email, went on with the email after the
\* deal was paused, and stopped at the next email's status check.
C19_Witness ==
    \E r \in Runners :
        LET d == deal_id[r] IN
        /\ Sole(r) /\ used.fault = 0
        /\ pc[r] = "stopped" /\ step[r] = 2 /\ seq_status[r] = "Gepauzeerd"
        /\ log[r] = << 1 >> /\ delivered[d][1] = 1 /\ LastStepSent(d) = 1
        /\ pause[d].writes[r] = 0 /\ ops[r].writes = 1

\* C20 (as stated): a thread moves on to the next entry of the schedule
\* only on or after the send date of its entry, and only when its status
\* check passed and its email was delivered, or when it read the email as
\* already sent.
C20_AdvanceOnlyAfterSentOrSkipped ==
    [][\A r \in Runners :
         (step'[r] = step[r] + 1)
         => /\ now >= StartDay(r) + EMAIL_SCHEDULE[step[r]].day
            /\ \/ pc[r] = "update_last" /\ ~SequenceStopped(seq_status[r])
                  /\ delivered[deal_id[r]][EmailNum(r)] > 0
               \/ pc[r] = "check_last" /\ last_sent'[r] >= EmailNum(r)]_vars

\* C20 (amended): a thread moves on to the next entry of the schedule only on
\* or after the send date of its entry and after a status check that read
\* neither "Gepauzeerd" nor "Voltooid", and only when its email was
\* delivered, when its send call returned without a delivery, or when it read
\* the email as already sent.
C20_AdvanceAfterSendOrSkip ==
    [][\A r \in Runners :
         (step'[r] = step[r] + 1)
         => /\ now >= StartDay(r) + EMAIL_SCHEDULE[step[r]].day
            /\ ~SequenceStopped(seq_status[r])
            /\ \/ pc[r] = "update_last" /\ delivered[deal_id[r]][EmailNum(r)] > 0
               \/ pc[r] = "send" /\ log'[r] = Append(log[r], EmailNum(r))
                  /\ delivered' = delivered
               \/ pc[r] = "check_last" /\ last_sent'[r] >= EmailNum(r)]_vars

\* A thread at the second entry of the schedule whose send of email 1
\* returned without a delivery.
C20_Witness ==
    \E r \in Runners :
        /\ Sole(r) /\ step[r] = 2 /\ pc[r] \in {"schedule", "sleep"}
        /\ log[r] = << 1 >> /\ delivered[deal_id[r]][1] = 0 /\ SMTP_PASS

\* C21: a thread writes the store only after its own delivery of the email
\* it records.  It comes to the write of "laatste_email" only from a send
\* that delivered; the field changes only in that write, to the email just
\* delivered; and the steps in which a thread stops, skips an email or has a
\* send return without a delivery leave the store alone and count no write.
C21_StoreRecordsOnlyDelivered ==
    /\ [](\A r \in Runners :
            pc[r] \in {"update_last", "update_status"}
            => /\ log[r] # << >> /\ log[r][Len(log[r])] = EmailNum(r)
               /\ delivered[deal_id[r]][EmailNum(r)] > 0)
    /\ [][\A r \in Runners :
            LET d == deal_id[r]
                n == EmailNum(r)
            IN  /\ (pc[r] # "update_last" /\ pc'[r] = "update_last")
                   => pc[r] = "send" /\ delivered'[d][n] = delivered[d][n] + 1
                /\ (pc[r] \in {"check_status", "check_last", "send"} /\ pc'[r] # pc[r])
                   => store' = store /\ ops'[r].writes = ops[r].writes
                /\ ops'[r].writes # ops[r].writes
                   => pc[r] \in {"update_last", "update_status"} \/ pc'[r] = "parse"]_vars
    /\ [][\A d \in Deals :
            laatste'[d] # laatste[d]
            => \E r \in Runners :
                 /\ deal_id[r] = d /\ pc[r] = "update_last"
                 /\ laatste'[d] = LaatsteEmailValue(EmailNum(r))]_vars

\* A thread whose send of email 1 returned without a delivery and whose
\* email 2 was delivered: one write made, email 2 recorded.
C21_Witness ==
    \E r \in Runners :
        LET d == deal_id[r] IN
        /\ Sole(r) /\ log[r] = << 1, 2 >> /\ pc[r] \in {"schedule", "sleep"}
        /\ delivered[d][1] = 0 /\ delivered[d][2] = 1
        /\ ops[r].writes = 1 /\ LastStepSent(d) = 2

\* C22: the service changes the status only in the write that follows the
\* delivery of the last email of the schedule and the write of that email as
\* the last one sent, and only to "Voltooid"; when no request has failed the
\* store then records the last email of the schedule; and the step in which a
\* thread stops leaves the status as it is.
C22_CompletedOnlyAfterLastStep ==
    [][/\ \A d \in Deals :
            (used'.external = used.external /\ status'[d] # status[d])
            => /\ status'[d] = "Voltooid"
               /\ \E r \in Runners :
                    /\ deal_id[r] = d /\ pc[r] = "update_status"
                    /\ step[r] = N /\ EmailNum(r) = EMAIL_SCHEDULE[N].email_num
                    /\ delivered[d][EmailNum(r)] > 0
                    /\ ops[r].writes > 0
               /\ used.fault = 0 => LastStepSent(d) = EMAIL_SCHEDULE[N].email_num
       /\ \A r \in Runners :
            (pc[r] # "stopped" /\ pc'[r] = "stopped") => status' = status]_vars

\* A restarted sequence that completed the deal: no request failed, the
\* status is "Voltooid" and the last email of the schedule is recorded.
C22_Witness ==
    \E r \in Runners :
        LET d == deal_id[r] IN
        /\ runs_on[d] = 2 /\ used.fault = 0 /\ used.external = 0
        /\ pc[r] = "done" /\ ops[r].writes >= 2
        /\ status[d] = "Voltooid" /\ LastStepSent(d) = N

\* C23: the write of "laatste_email" leaves the status of every deal as it
\* is, and the write of the status leaves "laatste_email" of every deal as
\* it is; a status "Gepauzeerd" is still there after the write of
\* "laatste_email".
C23_WritesArePartial ==
    [][\A r \in Runners :
         /\ (pc[r] = "update_last" /\ pc'[r] \notin {"update_last", "crashed"})
            => status' = status
         /\ (pc[r] = "update_status" /\ pc'[r] \notin {"update_status", "crashed"})
            => laatste' = laatste]_vars

\* A deal paused while email 1 was on its way: the email is recorded, the
\* status still "Gepauzeerd".
C23_Witness ==
    \E r \in Runners :
        LET d == deal_id[r] IN
        /\ Sole(r) /\ used.fault = 0 /\ pc[r] = "schedule" /\ step[r] = 2
        /\ status[d] = "Gepauzeerd" /\ pause[d].writes[r] = 0 /\ ops[r].writes = 1
        /\ laatste[d] = LaatsteEmailValue(1)

\* C24: the entries of EMAIL_SCHEDULE carry the email numbers 1..N in
\* order, their days strictly increase, every email number has a template,
\* and the test for the last email holds of the last entry and of no other;
\* so a thread at entry k works on email k, and it is at the status write only
\* at the last entry.
C24_ScheduleWellFormed ==
    /\ \A k \in 1..N :
         /\ EMAIL_SCHEDULE[k].email_num = k
         /\ EMAIL_SCHEDULE[k].email_num \in EMAIL_TEMPLATES
         /\ k > 1 => EMAIL_SCHEDULE[k - 1].day < EMAIL_SCHEDULE[k].day
         /\ IsLastEmail(EMAIL_SCHEDULE[k].email_num) <=> k = N
    /\ \A r \in Runners :
         /\ EmailNum(r) = step[r]
         /\ pc[r] = "update_status" => step[r] = N
         /\ (pc[r] = "done" /\ status[deal_id[r]] = "Voltooid" /\ used.external = 0)
            => delivered[deal_id[r]][EMAIL_SCHEDULE[N].email_num] > 0

\* A thread at the status write, at the last entry of the schedule, on the
\* thirtieth day after its start.
C24_Witness ==
    \E r \in Runners :
        /\ pc[r] = "update_status" /\ step[r] = N /\ IsLastEmail(EmailNum(r))
        /\ apk_sent_date[r] = DateText(0) /\ now = EMAIL_SCHEDULE[N].day

\* C25: the value written after email n reads back as n, for one-digit and
\* two-digit n; an empty field, a field without a number after "Email " and a
\* failed read give 0; and in every state the field of a deal is empty or
\* the value written for an email of the schedule, so that what is read from
\* it, and what a thread holds as read, is 0 or an email number of the schedule.
C25_LastSentRoundTrip ==
    /\ \A n \in 1..(N + N) : get_last_email_sent(TRUE, LaatsteEmailValue(n)) = n
    /\ \A n \in 1..N : get_last_email_sent(FALSE, LaatsteEmailValue(n)) = 0
    /\ get_last_email_sent(TRUE, << >>) = 0
    /\ get_last_email_sent(TRUE, <<"E", "m", "a", "i", "l">>) = 0
    /\ get_last_email_sent(TRUE, <<"E", "m", "a", "i", "l", " ", "x">>) = 0
    /\ get_last_email_sent(TRUE, <<"8">>) = 0
    /\ \A d \in Deals :
         /\ LastStepSent(d) \in 0..N
         /\ laatste[d] # << >> => laatste[d] = LaatsteEmailValue(LastStepSent(d))
         /\ laatste[d] = << >> => LastStepSent(d) = 0
    /\ \A r \in Runners : last_sent[r] \in 0..N

\* A thread that has read back the last email of the schedule from the
\* value another run wrote.
C25_Witness ==
    \E r \in Runners :
        /\ runs_on[deal_id[r]] = 2 /\ last_sent[r] = N /\ ops[r].writes = 0
        /\ laatste[deal_id[r]] = LaatsteEmailValue(N)

\* C26: when the write of the last email sent, or of the status "Voltooid",
\* fails after the email was delivered, the store keeps its fields, the email
\* stays delivered, and the thread goes on exactly as after a write that
\* worked: to the status write after the last email, else to the next email
\* or to its end.  Where no read or write failed before, the email is then
\* still above what the store records as sent, so a later run sends it again.
C26_FailedWriteGoesUnnoticed ==
    [][\A r \in Runners :
         (pc[r] \in {"update_last", "update_status"} /\ used'.fault = used.fault + 1)
         => LET d == deal_id[r]
                e == EmailNum(r)
            IN  /\ laatste' = laatste
                /\ status' = status
                /\ delivered' = delivered
                /\ delivered[d][e] > 0
                /\ pc'[r] = IF pc[r] = "update_last" /\ IsLastEmail(e)
                            THEN "update_status"
                            ELSE NextPc(step[r])
                /\ step'[r] = IF pc[r] = "update_last" /\ IsLastEmail(e)
                              THEN step[r]
                              ELSE NextStep(step[r])
                /\ (pc[r] = "update_last" /\ used.fault = 0)
                   => ~AlreadySent(get_last_email_sent(TRUE, laatste'[d]), e)]_vars

\* The first email was delivered and the write that records it failed: the
\* store has no last email, and the thread is on to the second email.
C26_Witness ==
    \E r \in Runners :
        /\ Sole(r) /\ step[r] = 2 /\ pc[r] \in {"schedule", "sleep", "check_status"}
        /\ ops[r].writes = 1 /\ used.fault = 1
        /\ delivered[deal_id[r]][EMAIL_SCHEDULE[1].email_num] = 1
        /\ laatste[deal_id[r]] = << >>
        /\ ~AlreadySent(LastStepSent(deal_id[r]), EMAIL_SCHEDULE[1].email_num)

\* C27: a thread at the top of an iteration whose send date is today or past
\* goes to the status check of that email at once, with no sleep and no day
\* passing; a thread sleeps only toward the send date of its email, never for
\* a date behind the clock; and a thread reaches the send of an email only
\* from that email's check of the last email sent, which it reaches only from
\* that email's status check.
C27_OverdueStepsRunAtOnce ==
    /\ [](\A r \in Runners :
            pc[r] = "sleep" => /\ wake[r] = SendDate(sent_date[r], step[r])
                               /\ wake[r] >= now)
    /\ [][\A r \in Runners :
            /\ (pc[r] = "schedule" /\ SendDate(sent_date[r], step[r]) <= now
                   /\ pc'[r] \notin {"schedule", "crashed"})
               => (pc'[r] = "check_status" /\ step'[r] = step[r] /\ now' = now
                   /\ wake'[r] = wake[r])
            /\ (pc[r] # "send" /\ pc'[r] = "send")
               => (pc[r] = "check_last" /\ step'[r] = step[r]
                   /\ ops'[r].reads = ops[r].reads + 1)
            /\ (pc[r] # "check_last" /\ pc'[r] = "check_last")
               => (pc[r] = "check_status" /\ step'[r] = step[r]
                   /\ ops'[r].reads = ops[r].reads + 1)]_vars

\* A thread started on day 0 with a date thirty days back has returned on
\* day 0 with every email of the schedule delivered once, in order, after two
\* reads of the deal for each.
C27_Witness ==
    \E r \in Runners :
        /\ now = 0 /\ apk_sent_date[r] = DateText(0 - EMAIL_SCHEDULE[N].day)
        /\ pc[r] = "done" /\ log[r] = AllEmails /\ ops[r].reads = 2 * N
        /\ \A n \in 1..N : delivered[deal_id[r]][n] = 1

\* The webhook calls handled that created a deal and sent the APK email.
Complete == {i \in 1..Len(submissions) : submissions[i].deal # 0 /\ submissions[i].email_sent}

\* C28: a thread is started only by a webhook call that created the thread's
\* deal, with status "Actief" and an empty last-email field that reads as 0,
\* and that sent the APK email; it is started with the date of that day.  As
\* many threads have been started as there were such calls, one for each of
\* their deals; for a deal whose call did not send the APK email no thread
\* runs and no sequence email is ever attempted; a call that created no deal
\* leaves the store and the threads as they were.
C28_StartedOnlyAfterDealAndReport ==
    /\ [](/\ used.runs = Cardinality(Complete)
          /\ \A r \in Runners : pc[r] # "idle" => deal_id[r] \in Created
          /\ \A d \in Deals :
               /\ d \notin Created => status[d] = ""
               /\ runs_on[d] = IF \E i \in Complete : submissions[i].deal = d THEN 1 ELSE 0
               /\ runs_on[d] = 0
                  => /\ laatste[d] = << >>
                     /\ \A n \in EMAIL_TEMPLATES : attempted[d][n] = 0 /\ delivered[d][n] = 0
                     /\ \A r \in Runners : pc[r] # "idle" => deal_id[r] # d)
    /\ [][/\ \A r \in Runners :
               (pc[r] # "parse" /\ pc'[r] = "parse")
               => LET d == deal_id'[r] IN
                  /\ submissions' = Append(submissions, [deal |-> d, email_sent |-> TRUE])
                  /\ d \notin Created /\ status[d] = ""
                  /\ status'[d] = "Actief" /\ laatste'[d] = << >>
                  /\ get_last_email_sent(TRUE, laatste'[d]) = 0
                  /\ apk_sent_date'[r] = DateText(now)
          /\ (Len(submissions') > Len(submissions) /\ submissions'[Len(submissions')].deal = 0)
             => UNCHANGED << store, pc, args, locals, history, used >>]_vars

\* Two webhook calls were handled, each creating its deal; the first did not
\* send the APK email, and its deal has no thread and no email; the thread of
\* the second has had the first email of the sequence delivered.
C28_Witness ==
    /\ submissions = << [deal |-> 1, email_sent |-> FALSE], [deal |-> 2, email_sent |-> TRUE] >>
    /\ status[1] = "Actief" /\ runs_on[1] = 0 /\ runs_on[2] = 1
    /\ \E r \in Runners : deal_id[r] = 2 /\ log[r] = << 1 >> /\ pc[r] = "sleep"
    /\ delivered[2][1] = 1 /\ delivered[1][1] = 0 /\ LastStepSent(2) = 1

====
